---- MODULE Spec2Model ----
(***************************************************************************)
(* The page manager of TFS (src/src/io/alloc.rs): the freelist of          *)
(* metaclusters, the cluster packer, the compression framing and the       *)
(* checksummed read path, as a state machine.                              *)
(*                                                                         *)
(* Sectors are sequences of bytes.  The sector size is scaled down from    *)
(* 512 so that a metacluster holds MaxFree pointers; checksums are scaled  *)
(* from 64/32 bits to 16/8 bits (TLC's integers are 32 bits wide).         *)
(***************************************************************************)
EXTENDS Integers, Sequences, FiniteSets, TLC

\* ------------------------------------------------------------- bounds
\* Free pointers one metacluster holds (K of the on-disk format).
MaxFree == 3
\* Pages the packer may hold in one cluster (CLUSTER_CAPACITY, in pages).
MaxPages == 2
\* Operations (alloc, free, corruption) in one run.
MaxOps == 4

\* ---------------------------------------------------------- constants
POINTER_SIZE == 8
SECTOR_SIZE == POINTER_SIZE * (MaxFree + 2)
CLUSTER_CAPACITY == MaxPages * SECTOR_SIZE
DELIMITER == 255
\* Width of the hash (u64 in the code) and of a page checksum (u32).
HashMod == 2 ^ 16
U32Mod == 2 ^ 8
U8Mod == 2 ^ 8

NumClusters == MaxFree + 3
Clusters == 1 .. NumClusters

\* -------------------------------------------------------------- bytes
Zeros(n) == [i \in 1 .. n |-> 0]

Min(a, b) == IF a < b THEN a ELSE b

\* Byte i (1-based) of the little-endian u64 encoding of v (v < 2^24).
LittleEndianByte(v, i) ==
    IF i = 1 THEN v % 256
    ELSE IF i = 2 THEN (v \div 256) % 256
    ELSE IF i = 3 THEN (v \div 65536) % 256
    ELSE 0

\* LittleEndian::write(&mut buf[off..], v): 8 bytes at byte offset off.
LittleEndianWrite(buf, off, v) ==
    [i \in 1 .. Len(buf) |->
        IF i > off /\ i <= off + POINTER_SIZE
        THEN LittleEndianByte(v, i - off) ELSE buf[i]]

\* LittleEndian::read(&buf[off..]): the u64 at byte offset off.
LittleEndianRead(buf, off) ==
    buf[off + 1] + 256 * buf[off + 2] + 65536 * buf[off + 3]

\* ----------------------------------------------------------- checksum
\* The hash folds h' = (31 * h + b + 1) % HashMod over the bytes b of the
\* buffer, from the seed 7.  The fold over a range of bytes is the map
\* h |-> (a * h + c) % HashMod, kept as <<a, c>>: built byte by byte over
\* short ranges, and composed by halves over long ones.
MulMod(a, b) ==
    ((a % 256) * b + 256 * (((a \div 256) * b) % (HashMod \div 256))) % HashMod

HashAppend(f, b) == <<(31 * f[1]) % HashMod, (31 * f[2] + b + 1) % HashMod>>

HashCompose(l, r) ==
    <<MulMod(l[1], r[1]), (MulMod(r[1], l[2]) + r[2]) % HashMod>>

RECURSIVE HashRange(_, _, _)
HashRange(buf, lo, hi) ==
    IF lo = hi THEN <<31, buf[lo] + 1>>
    ELSE IF hi - lo < 4
    THEN HashAppend(HashRange(buf, lo, hi - 1), buf[hi])
    ELSE HashCompose(HashRange(buf, lo, (lo + hi) \div 2),
                     HashRange(buf, (lo + hi) \div 2 + 1, hi))

HashApply(f, h) == (MulMod(f[1], h) + f[2]) % HashMod

\* Manager::checksum: the configured hash of a buffer.
Hash(buf) ==
    IF Len(buf) = 0 THEN 7 ELSE HashApply(HashRange(buf, 1, Len(buf)), 7)

\* `self.checksum(buf) as u32`
PageChecksum(buf) == Hash(buf) % U32Mod

\* ------------------------------------------------------------- codec
\* Stand-in for lz4_compress: run-length coding, <<count, byte>> pairs.
\* The length of the run of equal bytes that starts at input[i] and ends
\* at input[hi] at the latest.
RECURSIVE RunLength(_, _, _, _)
RunLength(input, i, hi, n) ==
    IF i + n <= hi /\ input[i + n] = input[i]
    THEN RunLength(input, i, hi, n + 1) ELSE n

\* Two coded streams joined: the last run of l and the first run of r are
\* one run when they repeat the same byte.
CodecMerge(l, r) ==
    IF l = << >> THEN r
    ELSE IF r = << >> THEN l
    ELSE IF l[Len(l)] = r[2] /\ l[Len(l) - 1] + r[1] <= 255
    THEN SubSeq(l, 1, Len(l) - 2) \o <<l[Len(l) - 1] + r[1], r[2]>>
            \o SubSeq(r, 3, Len(r))
    ELSE l \o r

CodecRun(n, byte, rest) == <<n, byte>> \o rest

\* The coded runs of input[lo .. hi]: run by run over short ranges, and
\* joined by halves over long ones.
RECURSIVE CodecCompressRange(_, _, _)
CodecCompressRange(input, lo, hi) ==
    IF lo > hi THEN << >>
    ELSE IF hi - lo < 4
    THEN CodecRun(RunLength(input, lo, hi, 1), input[lo],
                  CodecCompressRange(input,
                                     lo + RunLength(input, lo, hi, 1), hi))
    ELSE CodecMerge(CodecCompressRange(input, lo, (lo + hi) \div 2),
                    CodecCompressRange(input, (lo + hi) \div 2 + 1, hi))

CodecCompress(input) == CodecCompressRange(input, 1, Len(input))

\* The bytes of the runs lo .. hi of a coded stream.
RECURSIVE CodecExpandRange(_, _, _)
CodecExpandRange(stream, lo, hi) ==
    IF lo > hi THEN << >>
    ELSE IF lo = hi THEN [j \in 1 .. stream[2 * lo - 1] |-> stream[2 * lo]]
    ELSE LET mid == (lo + hi) \div 2
         IN  CodecExpandRange(stream, lo, mid)
                \o CodecExpandRange(stream, mid + 1, hi)

CodecValid(stream) ==
    /\ Len(stream) % 2 = 0
    /\ \A i \in 1 .. Len(stream) : (i % 2 = 1) => stream[i] > 0

\* lz4_compress::decompress: the bytes, or an error.
CodecDecompress(stream) ==
    IF CodecValid(stream)
    THEN [ok |-> TRUE, data |-> CodecExpandRange(stream, 1, Len(stream) \div 2)]
    ELSE [ok |-> FALSE, data |-> << >>]

\* -------------------------------------------------------- metacluster
\* Option<cluster::Pointer>: 0 is None (the null pointer).
NoCluster == 0

\* Free pointers one metacluster sector has room for.
MetaclusterSlots == (SECTOR_SIZE - 2 * POINTER_SIZE) \div POINTER_SIZE

\* The loop of Metacluster::encode: `for (n, i) in free.iter().enumerate()`
\* writes the pointer i at byte offset POINTER_SIZE * i + 8.
RECURSIVE encode_free(_, _, _)
encode_free(buf, free, n) ==
    IF n > Len(free) THEN buf
    ELSE encode_free(
            LittleEndianWrite(buf, POINTER_SIZE * free[n] + 8, free[n]),
            free, n + 1)

\* A write of encode's loop that does not fit in the sector panics.
encode_panics(m) ==
    \E n \in 1 .. Len(m.free) :
        POINTER_SIZE * m.free[n] + 8 + POINTER_SIZE > SECTOR_SIZE

\* Metacluster::encode
encode(m) ==
    encode_free(
        LittleEndianWrite(
            LittleEndianWrite(Zeros(SECTOR_SIZE), 0, m.next_checksum),
            8, m.next),
        m.free, 1)

\* Length of the hashed part: (free.len() + 1) * POINTER_SIZE + 8.
ActivePrefixLen(m) == (Len(m.free) + 1) * POINTER_SIZE + 8

checksum_panics(m) == encode_panics(m) \/ ActivePrefixLen(m) > SECTOR_SIZE

\* Metacluster::checksum
checksum(m) == Hash(SubSeq(encode(m), 1, ActivePrefixLen(m)))

\* The on-disk format of a metacluster sector: free pointer n at 16 + 8n.
RECURSIVE FormatFree(_, _, _)
FormatFree(buf, free, n) ==
    IF n > Len(free) THEN buf
    ELSE FormatFree(
            LittleEndianWrite(buf, 2 * POINTER_SIZE + POINTER_SIZE * (n - 1),
                              free[n]),
            free, n + 1)

FormatMetacluster(m) ==
    FormatFree(
        LittleEndianWrite(
            LittleEndianWrite(Zeros(SECTOR_SIZE), 0, m.next_checksum),
            8, m.next),
        m.free, 1)

RECURSIVE decode_free(_, _)
decode_free(buf, n) ==
    IF n >= MetaclusterSlots
          \/ LittleEndianRead(buf, 2 * POINTER_SIZE + POINTER_SIZE * n) = 0
    THEN << >>
    ELSE <<LittleEndianRead(buf, 2 * POINTER_SIZE + POINTER_SIZE * n)>>
            \o decode_free(buf, n + 1)

\* Metacluster::decode: the reverse of the on-disk format; the free array
\* ends at the first null pointer.
decode(buf) ==
    [next_checksum |-> LittleEndianRead(buf, 0),
     next |-> LittleEndianRead(buf, 8),
     free |-> decode_free(buf, 0)]

\* ---------------------------------------------------------- compression
Identity == "Identity"
Lz4 == "Lz4"

\* Faulty variant: the stream is padded without a delimiter.
frame_undelimited(compressed) ==
    IF Len(compressed) < SECTOR_SIZE
    THEN [some |-> TRUE,
          buf |-> compressed \o Zeros(SECTOR_SIZE - Len(compressed))]
    ELSE [some |-> FALSE, buf |-> << >>]

\* Lines 383-398 of compress: a stream shorter than a sector gets the
\* delimiter pushed and is copied into a zeroed sector; a longer one is None.
frame(compressed) ==
    IF Len(compressed) < SECTOR_SIZE
    THEN [some |-> TRUE,
          buf |-> compressed \o <<DELIMITER>>
                    \o Zeros(SECTOR_SIZE - Len(compressed) - 1)]
    ELSE [some |-> FALSE, buf |-> << >>]

\* Manager::compress: Some(sector), None, or a panic when disabled.
compress(algorithm, input) ==
    IF algorithm = Identity
    THEN [panic |-> TRUE, some |-> FALSE, buf |-> << >>]
    ELSE LET padded == frame(CodecCompress(input))
         IN  [panic |-> FALSE, some |-> padded.some, buf |-> padded.buf]

\* Index (0-based) of the last non-zero byte of a sector, -1 when all zero.
LastNonZero(cluster) ==
    LET nonzero == {i \in 1 .. Len(cluster) : cluster[i] # 0}
    IN  IF nonzero = {} THEN -1
        ELSE (CHOOSE i \in nonzero : \A j \in nonzero : j <= i) - 1

\* `source[..len]` (line 417): the bytes before the delimiter.
unframe(cluster) == SubSeq(cluster, 1, LastNonZero(cluster))

\* Manager::decompress: kind is "Ok", "InvalidCompression" or "Panic".
decompress(algorithm, cluster) ==
    LET len == LastNonZero(cluster)
    IN  IF len >= 0
        THEN IF algorithm = Identity
             THEN [kind |-> "Panic", data |-> << >>]
             ELSE LET d == CodecDecompress(unframe(cluster))
                  IN  IF d.ok THEN [kind |-> "Ok", data |-> d.data]
                      ELSE [kind |-> "InvalidCompression", data |-> << >>]
        ELSE [kind |-> "InvalidCompression", data |-> << >>]

\* ---------------------------------------------------------------- pages
\* Option<u8> offset of a page pointer: -1 is None.
NoOffset == -1

Pointer(cluster, offset, cksum) ==
    [cluster |-> cluster, offset |-> offset, checksum |-> cksum]

NoPointer == Pointer(NoCluster, NoOffset, 0)

\* The bytes a page pointer designates: the raw cluster, or sector `offset`
\* of the decompressed cluster (a slice out of range panics).
PageBytes(algorithm, cluster, page) ==
    IF page.offset = NoOffset THEN [kind |-> "Ok", data |-> cluster]
    ELSE LET d == decompress(algorithm, cluster)
         IN  IF d.kind # "Ok" THEN d
             ELSE IF page.offset * SECTOR_SIZE + SECTOR_SIZE > Len(d.data)
             THEN [kind |-> "Panic", data |-> << >>]
             ELSE [kind |-> "Ok",
                   data |-> SubSeq(d.data, page.offset * SECTOR_SIZE + 1,
                                   page.offset * SECTOR_SIZE + SECTOR_SIZE)]

\* Faulty variant: the checksum of the page is not compared.
ChecksumIgnored(cksum, page) == TRUE

\* The comparison of read: the page's checksum against the pointer's.
ChecksumMatches(cksum, page) == cksum = page.checksum

\* Manager::read on the cached sector of page.cluster.
read(algorithm, cluster, page) ==
    LET buf == PageBytes(algorithm, cluster, page)
    IN  IF buf.kind # "Ok"
        THEN [kind |-> buf.kind, data |-> << >>, found |-> 0]
        ELSE LET cksum == PageChecksum(buf.data)
             IN  IF ~ChecksumMatches(cksum, page)
                 THEN [kind |-> "PageChecksumMismatch", data |-> << >>,
                       found |-> cksum]
                 ELSE [kind |-> "Ok", data |-> buf.data, found |-> cksum]

\* ---------------------------------------------------------- page inputs
PageIds == 1 .. 4

\* 1: all zero; 2: runs of four bytes; 3: two runs (the three compress into
\* one sector together); 4: no two adjacent bytes equal.
PageData(id) ==
    [i \in 1 .. SECTOR_SIZE |->
        IF id = 1 THEN 0
        ELSE IF id = 2 THEN 2 + (((i - 1) \div 4) % 2)
        ELSE IF id = 3 THEN (IF i > SECTOR_SIZE - 3 THEN 5 ELSE 4)
        ELSE 6 + (i % 2)]

\* The page whose compressed form does not fit a sector.
IncompressiblePage ==
    CHOOSE id \in PageIds : ~compress(Lz4, PageData(id)).some

\* ------------------------------------------------------------- manager
\* The manager is handled as a record m:
\*   cache            the cached sector of every cluster
\*   state_block      the state last flushed to the state-block sector
\*   state            state.freelist_head (some = FALSE: None)
\*   head_metacluster the in-memory head metacluster
\*   last_cluster     the packer's slot (some = FALSE: None)
\*   dedup_table      page id -> stored pointer, or NoPointer
\*   algorithm        config.compression_algorithm
\*   tx               addresses written by the running operation, in order
StateBlockAddress == 0

NoHead ==
    [some |-> FALSE, cluster |-> NoCluster, checksum |-> 0, counter |-> 0]

FreelistHead(cluster, cksum, counter) ==
    [some |-> TRUE, cluster |-> cluster, checksum |-> cksum,
     counter |-> counter]

NoClusterState == [some |-> FALSE, cluster |-> NoCluster, uncompressed |-> << >>]

ClusterState(cluster, uncompressed) ==
    [some |-> TRUE, cluster |-> cluster, uncompressed |-> uncompressed]

\* Manager::flush_state_block
flush_state_block(m) ==
    [m EXCEPT !.state_block = m.state,
              !.tx = Append(@, StateBlockAddress)]

\* self.cache.write(cluster, buf)
cache_write(m, cluster, buf) ==
    IF cluster \in DOMAIN m.cache
    THEN [m EXCEPT !.cache[cluster] = buf, !.tx = Append(@, cluster)]
    ELSE m

\* Manager::write_head_metacluster
write_head_metacluster(m, cluster) ==
    cache_write(m, cluster, encode(m.head_metacluster))

\* What a pop reports: the manager after it, the result, and the path taken
\* ("empty", "free", "switch", "switch_failed", "last").
PopResult(m, kind, cluster, path, stored, found) ==
    [m |-> m, kind |-> kind, cluster |-> cluster, path |-> path,
     stored |-> stored, found |-> found]

NoPop == [kind |-> "None", cluster |-> NoCluster, path |-> "none",
          stored |-> 0, found |-> 0]

PopInfo(r) == [kind |-> r.kind, cluster |-> r.cluster, path |-> r.path,
               stored |-> r.stored, found |-> r.found]

\* Faulty variant: the popped pointer stays in the free array.
free_kept(pointers) == pointers

\* The free array after `free.pop()` (line 466).
free_popped(pointers) == SubSeq(pointers, 1, Len(pointers) - 1)

\* freelist_pop, head metacluster holds a free cluster (lines 466-483).
\* `counter -= 1` on a u8 of 0 panics with overflow checks and wraps
\* without them: wrap chooses the build.
pop_free(m, freelist_head, wrap) ==
    LET free == m.head_metacluster.free[Len(m.head_metacluster.free)]
        head == [m.head_metacluster EXCEPT !.free = free_popped(@)]
        m1 == [m EXCEPT !.head_metacluster = head]
    IN  IF freelist_head.counter = 0 /\ ~wrap
        THEN PopResult(m1, "Panic", NoCluster, "free", 0, 0)
        ELSE IF checksum_panics(head)
        THEN PopResult(m1, "Panic", NoCluster, "free", 0, 0)
        ELSE PopResult(
                flush_state_block(
                    [m1 EXCEPT !.state =
                        FreelistHead(freelist_head.cluster, checksum(head),
                                     (freelist_head.counter - 1) % U8Mod)]),
                "Ok", free, "free", 0, 0)

\* The test of line 506 that lets the decoded metacluster through.
metacluster_accepted(found, stored) == found # stored

\* freelist_pop, head metacluster exhausted (lines 484-540): the old head
\* cluster is handed out; a failed switch is dropped (`else { None }`).
pop_head(m, freelist_head) ==
    IF m.head_metacluster.next # NoCluster
    THEN LET next_metacluster == m.head_metacluster.next
             stored == m.head_metacluster.next_checksum
             m1 == [m EXCEPT !.head_metacluster.next = NoCluster]
         IN  IF next_metacluster \notin DOMAIN m.cache
             THEN PopResult(m1, "Ok", freelist_head.cluster,
                            "switch_failed", stored, 0)
             ELSE LET metacluster == decode(m.cache[next_metacluster])
                  IN  IF checksum_panics(metacluster)
                      THEN PopResult(m1, "Panic", NoCluster, "switch",
                                     stored, 0)
                      ELSE IF metacluster_accepted(checksum(metacluster),
                                                   stored)
                      THEN PopResult(
                              flush_state_block(
                                  [m1 EXCEPT
                                      !.head_metacluster = metacluster,
                                      !.state = FreelistHead(
                                          next_metacluster,
                                          checksum(metacluster),
                                          Len(metacluster.free) % U8Mod)]),
                              "Ok", freelist_head.cluster, "switch",
                              stored, checksum(metacluster))
                      ELSE PopResult(m1, "Ok", freelist_head.cluster,
                                     "switch_failed", stored,
                                     checksum(metacluster))
    ELSE PopResult(m, "Ok", freelist_head.cluster, "last", 0, 0)

\* Faulty variant: the freelist head is read and left in place.
freelist_head_kept(m) == m

\* `state.freelist_head.take()` (line 465): the head is moved out.
freelist_head_taken(m) == [m EXCEPT !.state = NoHead]

\* Manager::freelist_pop
freelist_pop(m, wrap) ==
    IF m.state.some
    THEN LET m1 == freelist_head_taken(m)
         IN  IF Len(m.head_metacluster.free) > 0
             THEN pop_free(m1, m.state, wrap)
             ELSE pop_head(m1, m.state)
    ELSE PopResult(m, "OutOfClusters", NoCluster, "empty", 0, 0)

\* The test of line 562: the head metacluster is full.
head_is_full(free) == Len(free) + 2 = SECTOR_SIZE \div POINTER_SIZE

\* Faulty variant: the state block is flushed before the new head is written.
push_new_head_flush_first(m, cluster) ==
    LET head == [next_checksum |-> m.state.checksum,
                 next |-> m.state.cluster,
                 free |-> << >>]
        m1 == [m EXCEPT !.head_metacluster = head,
                        !.state = FreelistHead(cluster, checksum(head), 0)]
    IN  write_head_metacluster(flush_state_block(m1), cluster)

\* freelist_push, head metacluster full (lines 563-592).
push_new_head(m, cluster) ==
    LET head == [next_checksum |-> m.state.checksum,
                 next |-> m.state.cluster,
                 free |-> << >>]
        m1 == [m EXCEPT !.head_metacluster = head,
                        !.state = FreelistHead(cluster, checksum(head), 0)]
    IN  flush_state_block(write_head_metacluster(m1, cluster))

\* freelist_push, room in the head metacluster (lines 594-599).
push_free(m, cluster) ==
    flush_state_block(
        [m EXCEPT !.head_metacluster.free = Append(@, cluster)])

\* freelist_push, empty freelist (lines 602-610).
push_first(m, cluster) ==
    flush_state_block([m EXCEPT !.state = FreelistHead(cluster, 0, 0)])

\* Manager::freelist_push
freelist_push(m, cluster) ==
    IF m.state.some
    THEN IF head_is_full(m.head_metacluster.free)
         THEN push_new_head(m, cluster)
         ELSE push_free(m, cluster)
    ELSE push_first(m, cluster)

\* --------------------------------------------------------------- alloc
\* One call of Manager::alloc is a sequence of steps on the shared state;
\* l holds the caller's locals and its position pc.
StartAlloc(id) ==
    [pc |-> "dedup", id |-> id, cksum |-> 0, state |-> NoClusterState,
     cluster |-> NoCluster, compressed |-> << >>, ptr |-> NoPointer,
     kind |-> "Running", hit |-> FALSE, pop |-> NoPop]

Idle == [StartAlloc(0) EXCEPT !.pc = "idle", !.kind = "None"]

Step(m, l) == [m |-> m, l |-> l]

Return(m, l, kind, ptr) ==
    Step(m, [l EXCEPT !.pc = "done", !.kind = kind, !.ptr = ptr])

\* The dedup table maps the content of a page (here its id) to the pointer
\* stored for it: dedup looks a content up, insert stores its pointer.
dedup_table_dedup(table, id) == table[id]

dedup_table_insert(table, id, ptr) == [table EXCEPT ![id] = ptr]

\* Faulty variant: the compression mode is not tested.
alloc_dedup_packing(m, l) ==
    LET cksum == PageChecksum(PageData(l.id))
        l1 == [l EXCEPT !.cksum = cksum]
        page == dedup_table_dedup(m.dedup_table, l.id)
    IN  IF page # NoPointer
        THEN Return(m, [l1 EXCEPT !.hit = TRUE], "Ok", page)
        ELSE Step(m, [l1 EXCEPT !.pc = "take"])

\* Lines 195-206: checksum, probe of the dedup table, compression mode.
alloc_dedup(m, l) ==
    LET cksum == PageChecksum(PageData(l.id))
        l1 == [l EXCEPT !.cksum = cksum]
        page == dedup_table_dedup(m.dedup_table, l.id)
    IN  IF page # NoPointer
        THEN Return(m, [l1 EXCEPT !.hit = TRUE], "Ok", page)
        ELSE IF m.algorithm = Identity
        THEN Step(m, [l1 EXCEPT !.pc = "pop_identity"])
        ELSE Step(m, [l1 EXCEPT !.pc = "take"])

\* Faulty variant: the pointer is not entered in the table.
dedup_insert_dropped(m, id, ptr) == m

\* self.dedup_table.insert(buf, ptr)
dedup_insert(m, id, ptr) ==
    [m EXCEPT !.dedup_table = dedup_table_insert(@, id, ptr)]

\* Lines 208-214: compression disabled, pop a cluster for the page.
alloc_pop_identity(m, l, wrap) ==
    LET r == freelist_pop(m, wrap)
    IN  IF r.kind # "Ok"
        THEN Return(r.m, [l EXCEPT !.pop = PopInfo(r)], r.kind, NoPointer)
        ELSE Step(r.m, [l EXCEPT !.pc = "insert_identity",
                                 !.pop = PopInfo(r),
                                 !.cluster = r.cluster,
                                 !.ptr = Pointer(r.cluster, NoOffset,
                                                 l.cksum)])

\* Line 218.
alloc_insert_identity(m, l) ==
    Step(dedup_insert(m, l.id, l.ptr), [l EXCEPT !.pc = "write_identity"])

\* Line 221.
alloc_write_identity(m, l) ==
    Return(cache_write(m, l.cluster, PageData(l.id)), l, "Ok", l.ptr)

\* Faulty variant: the page count of the cluster instead of the last page's index.
page_offset_count(state) == Len(state.uncompressed) \div SECTOR_SIZE

\* The index of the page appended last (line 248).
page_offset(state) == Len(state.uncompressed) \div SECTOR_SIZE - 1

\* Faulty variant: the last cluster is extended whatever its length.
alloc_take_unbounded(m, l) ==
    LET state == m.last_cluster
        m1 == [m EXCEPT !.last_cluster = NoClusterState]
    IN  IF state.some
        THEN LET extended == [state EXCEPT
                                 !.uncompressed = @ \o PageData(l.id)]
                 compressed == compress(m.algorithm, extended.uncompressed)
             IN  IF compressed.panic
                 THEN Return(m1, l, "Panic", NoPointer)
                 ELSE IF compressed.some
                 THEN Step(m1, [l EXCEPT !.pc = "put_back",
                                         !.state = extended,
                                         !.compressed = compressed.buf])
                 ELSE Step(m1, [l EXCEPT !.pc = "pop"])
        ELSE Step(m1, [l EXCEPT !.pc = "pop"])

\* Lines 224-239: take the last cluster, extend it and compress.
alloc_take(m, l) ==
    LET state == m.last_cluster
        m1 == [m EXCEPT !.last_cluster = NoClusterState]
    IN  IF state.some /\ Len(state.uncompressed) < CLUSTER_CAPACITY
        THEN LET extended == [state EXCEPT
                                 !.uncompressed = @ \o PageData(l.id)]
                 compressed == compress(m.algorithm, extended.uncompressed)
             IN  IF compressed.panic
                 THEN Return(m1, l, "Panic", NoPointer)
                 ELSE IF compressed.some
                 THEN Step(m1, [l EXCEPT !.pc = "put_back",
                                         !.state = extended,
                                         !.compressed = compressed.buf])
                 ELSE Step(m1, [l EXCEPT !.pc = "pop"])
        ELSE Step(m1, [l EXCEPT !.pc = "pop"])

\* Faulty variant: the extended cluster is not put back.
alloc_put_back_dropped(m, l) ==
    Step(m,
         [l EXCEPT !.pc = "insert_append",
                   !.cluster = l.state.cluster,
                   !.ptr = Pointer(l.state.cluster, page_offset(l.state),
                                   l.cksum)])

\* Lines 242-250: put the extended cluster back, build the pointer.
alloc_put_back(m, l) ==
    Step([m EXCEPT !.last_cluster = l.state],
         [l EXCEPT !.pc = "insert_append",
                   !.cluster = l.state.cluster,
                   !.ptr = Pointer(l.state.cluster, page_offset(l.state),
                                   l.cksum)])

\* Line 254.
alloc_insert_append(m, l) ==
    Step(dedup_insert(m, l.id, l.ptr), [l EXCEPT !.pc = "write_append"])

\* Line 258.
alloc_write_append(m, l) ==
    Return(cache_write(m, l.cluster, l.compressed), l, "Ok", l.ptr)

\* Lines 268-269: pop a fresh cluster and compress the single page.
alloc_pop(m, l, wrap) ==
    LET r == freelist_pop(m, wrap)
        compressed == compress(m.algorithm, PageData(l.id))
    IN  IF r.kind # "Ok"
        THEN Return(r.m, [l EXCEPT !.pop = PopInfo(r)], r.kind, NoPointer)
        ELSE IF compressed.panic
        THEN Return(r.m, [l EXCEPT !.pop = PopInfo(r)], "Panic", NoPointer)
        ELSE IF compressed.some
        THEN Step(r.m, [l EXCEPT !.pc = "install", !.pop = PopInfo(r),
                                 !.cluster = r.cluster,
                                 !.compressed = compressed.buf])
        ELSE Step(r.m, [l EXCEPT !.pc = "write_raw", !.pop = PopInfo(r),
                                 !.cluster = r.cluster])

\* Lines 280-284: the new cluster becomes the last cluster.
alloc_install(m, l) ==
    Step([m EXCEPT !.last_cluster = ClusterState(l.cluster, PageData(l.id))],
         [l EXCEPT !.pc = "write_compressed"])

\* Lines 287-291.
alloc_write_compressed(m, l) ==
    Step(cache_write(m, l.cluster, l.compressed),
         [l EXCEPT !.pc = "insert",
                   !.ptr = Pointer(l.cluster, 0, l.cksum)])

\* Faulty variant: the uncompressed cluster becomes the last cluster.
alloc_write_raw_installed(m, l) ==
    Step(cache_write([m EXCEPT !.last_cluster =
                         ClusterState(l.cluster, PageData(l.id))],
                     l.cluster, PageData(l.id)),
         [l EXCEPT !.pc = "insert",
                   !.ptr = Pointer(l.cluster, NoOffset, l.cksum)])

\* Lines 305-309.
alloc_write_raw(m, l) ==
    Step(cache_write(m, l.cluster, PageData(l.id)),
         [l EXCEPT !.pc = "insert",
                   !.ptr = Pointer(l.cluster, NoOffset, l.cksum)])

\* Lines 314-316.
alloc_insert(m, l) ==
    Return(dedup_insert(m, l.id, l.ptr), l, "Ok", l.ptr)

\* The step of alloc at position l.pc.
alloc_step(m, l, wrap) ==
    CASE l.pc = "dedup" -> alloc_dedup(m, l)
      [] l.pc = "pop_identity" -> alloc_pop_identity(m, l, wrap)
      [] l.pc = "insert_identity" -> alloc_insert_identity(m, l)
      [] l.pc = "write_identity" -> alloc_write_identity(m, l)
      [] l.pc = "take" -> alloc_take(m, l)
      [] l.pc = "put_back" -> alloc_put_back(m, l)
      [] l.pc = "insert_append" -> alloc_insert_append(m, l)
      [] l.pc = "write_append" -> alloc_write_append(m, l)
      [] l.pc = "pop" -> alloc_pop(m, l, wrap)
      [] l.pc = "install" -> alloc_install(m, l)
      [] l.pc = "write_compressed" -> alloc_write_compressed(m, l)
      [] l.pc = "write_raw" -> alloc_write_raw(m, l)
      [] l.pc = "insert" -> alloc_insert(m, l)

\* Manager::alloc run to its return by one caller.
RECURSIVE alloc(_, _, _)
alloc(m, l, wrap) ==
    IF l.pc = "done" THEN Step(m, l)
    ELSE LET r == alloc_step(m, l, wrap) IN alloc(r.m, r.l, wrap)

\* free(ptr): a freelist push of the pointer's cluster.
free(m, ptr) == freelist_push(m, ptr.cluster)

\* ----------------------------------------------------------------- state
VARIABLES
    cache,              \* cluster -> sector, as the cache holds it
    state_block,        \* the state-block sector (the freelist head in it)
    state,              \* Manager.state.freelist_head
    head_metacluster,   \* Manager.head_metacluster
    last_cluster,       \* Manager.last_cluster
    dedup_table,        \* Manager.dedup_table
    algorithm,          \* Manager.config.compression_algorithm
    tx,                 \* addresses written by the last operation, in order
    threads,            \* thread -> locals of its running alloc
    calls,              \* thread -> alloc calls it has made
    live,               \* page pointers the callers hold
    issued,             \* <<page id, pointer>> of every successful alloc
    handed,             \* clusters popped and not pushed back, in pop order
    result,             \* what the last operation returned
    nops,               \* operations so far
    freed,              \* some free has been called
    corrupted,          \* a sector has been corrupted
    pool,               \* clusters of the device: free or allocated at open
    stream,             \* a stream the codec returned to compress
    framed,             \* the sector compress built of it
    recovered           \* what decompress hands to the codec

vars == <<cache, state_block, state, head_metacluster, last_cluster,
          dedup_table, algorithm, tx, threads, calls, live, issued, handed,
          result, nops, freed, corrupted, pool, stream, framed, recovered>>

\* The variables of the framing of a compressed stream.
framing == <<stream, framed, recovered>>

Threads == {1, 2}

\* Alloc calls the threads make in all when the calls run concurrently.
MaxCalls == 2

\* The manager record of the current state, with an empty transaction.
Mgr ==
    [cache |-> cache, state_block |-> state_block, state |-> state,
     head_metacluster |-> head_metacluster, last_cluster |-> last_cluster,
     dedup_table |-> dedup_table, algorithm |-> algorithm, tx |-> << >>]

SetMgr(m) ==
    /\ cache' = m.cache
    /\ state_block' = m.state_block
    /\ state' = m.state
    /\ head_metacluster' = m.head_metacluster
    /\ last_cluster' = m.last_cluster
    /\ dedup_table' = m.dedup_table
    /\ tx' = m.tx
    /\ UNCHANGED <<algorithm, pool>>
    /\ UNCHANGED framing

Result(op, kind, id, ptr, data, found, hit, pop) ==
    [op |-> op, kind |-> kind, id |-> id, ptr |-> ptr, data |-> data,
     found |-> found, hit |-> hit, pop |-> pop]

\* A panic ends the program.  A read changes nothing but its own result, so
\* a run is followed up to the result of a read and not beyond it.
Running == result.kind # "Panic" /\ result.op # "read"

\* ------------------------------------------------------------------ init
\* Checksum of a metacluster as formatted on disk.
FormatChecksum(m) ==
    Hash(SubSeq(FormatMetacluster(m), 1, ActivePrefixLen(m)))

Metacluster(next_checksum, next, pointers) ==
    [next_checksum |-> next_checksum, next |-> next, free |-> pointers]

\* A mounted device: the head metacluster at cluster `at`, the sectors in
\* `sectors` on disk (all others zero), the pages of `pages` allocated.
Mounted(alg, at, head, sectors, pages) ==
    /\ algorithm = alg
    /\ cache = [c \in Clusters |->
                  IF c = at THEN FormatMetacluster(head)
                  ELSE IF c \in DOMAIN sectors THEN sectors[c]
                  ELSE Zeros(SECTOR_SIZE)]
    /\ state = FreelistHead(at, FormatChecksum(head), Len(head.free))
    /\ state_block = state
    /\ head_metacluster = head
    /\ last_cluster = NoClusterState
    /\ dedup_table = [id \in PageIds |->
                        IF \E c \in DOMAIN pages : pages[c] = id
                        THEN LET c == CHOOSE c \in DOMAIN pages :
                                          pages[c] = id
                             IN  Pointer(c, NoOffset,
                                         PageChecksum(PageData(id)))
                        ELSE NoPointer]
    /\ live = {dedup_table[id] : id \in PageIds} \ {NoPointer}
    /\ issued = {<<id, dedup_table[id]>> : id \in PageIds}
                    \ {<<id, NoPointer>> : id \in PageIds}
    /\ handed = [i \in 1 .. Cardinality(DOMAIN pages) |->
                    CHOOSE c \in DOMAIN pages :
                        Cardinality({d \in DOMAIN pages : d <= c}) = i]
    /\ pool = {at} \cup {head.free[i] : i \in 1 .. Len(head.free)}
                \cup UNION {{c} \cup {decode(sectors[c]).free[i] :
                                        i \in 1 .. Len(decode(sectors[c]).free)} :
                            c \in DOMAIN sectors \ DOMAIN pages}
                \cup DOMAIN pages

Interior == Metacluster(0, NoCluster, [i \in 1 .. MaxFree |-> i])

NoSectors == [c \in {} |-> << >>]

\* The clusters of a device that holds every page, one page a cluster.
StoredAt == 2 .. Min(MaxFree + 2, Cardinality(PageIds) + 1)

\* The devices the manager is opened on.
Devices(alg) ==
    \* a full head metacluster and one allocated (uncompressed) page
    \/ Mounted(alg, MaxFree + 1, Interior, 
               (MaxFree + 2) :> PageData(IncompressiblePage),
               (MaxFree + 2) :> IncompressiblePage)
    \* a freelist of one cluster
    \/ Mounted(alg, 1, Metacluster(0, NoCluster, << >>), NoSectors, NoSectors)
    \* a head metacluster linked to a full one
    \/ Mounted(alg, MaxFree + 2,
               Metacluster(FormatChecksum(Interior), MaxFree + 1,
                           <<MaxFree + 3>>),
               (MaxFree + 1) :> FormatMetacluster(Interior), NoSectors)
    \* free clusters at addresses beyond the slots of a sector
    \/ Mounted(alg, 2, Metacluster(0, NoCluster, <<MaxFree + 2, 1>>),
               NoSectors, NoSectors)
    \* written without compression: an empty head metacluster, every page
    \* allocated
    \/ /\ alg = Identity
       /\ Mounted(alg, 1, Metacluster(0, NoCluster, << >>),
                  [c \in StoredAt |-> PageData(c - 1)],
                  [c \in StoredAt |-> c - 1])

Init ==
    /\ \E alg \in {Identity, Lz4} : Devices(alg)
    /\ tx = << >>
    /\ threads = [t \in Threads |-> Idle]
    /\ calls = [t \in Threads |-> 0]
    /\ result = Result("open", "Ok", 0, NoPointer, << >>, 0, FALSE, NoPop)
    /\ nops = 0
    /\ freed = FALSE
    /\ corrupted = FALSE
    /\ stream = << >>
    /\ framed = << >>
    /\ recovered = << >>

\* --------------------------------------------------------------- actions
\* `counter -= 1` can only overflow on a counter of 0.
Builds == IF state.some /\ state.counter = 0 /\ Len(head_metacluster.free) > 0
          THEN BOOLEAN ELSE {TRUE}

\* The bookkeeping of a returned alloc.
Returned(l) ==
    /\ result' = Result("alloc", l.kind, l.id, l.ptr, << >>, 0, l.hit, l.pop)
    /\ issued' = IF l.kind = "Ok" THEN issued \cup {<<l.id, l.ptr>>}
                 ELSE issued
    /\ live' = IF l.kind = "Ok" THEN live \cup {l.ptr} ELSE live

Popped(l) ==
    handed' = IF l.pop.kind = "Ok" THEN Append(handed, l.pop.cluster)
              ELSE handed

\* alloc(buf), from call to return.
Alloc(id) ==
    /\ Running
    /\ nops < MaxOps
    /\ \E wrap \in Builds :
          LET r == alloc(Mgr, StartAlloc(id), wrap)
          IN  /\ SetMgr(r.m)
              /\ Returned(r.l)
              /\ Popped(r.l)
    /\ nops' = nops + 1
    /\ UNCHANGED <<threads, calls, freed, corrupted>>

\* read(ptr) of a pointer some alloc returned.
Read(ptr) ==
    /\ Running
    /\ LET r == read(algorithm, cache[ptr.cluster], ptr)
       IN  result' = Result("read", r.kind, 0, ptr, r.data, r.found, FALSE,
                            NoPop)
    /\ tx' = << >>
    /\ UNCHANGED <<cache, state_block, state, head_metacluster, last_cluster,
                   dedup_table, algorithm, pool, threads, calls, live, issued,
                   handed, nops, freed, corrupted>>
    /\ UNCHANGED framing

RECURSIVE Without(_, _)
Without(seq, x) ==
    IF seq = << >> THEN << >>
    ELSE IF Head(seq) = x THEN Tail(seq)
    ELSE <<Head(seq)>> \o Without(Tail(seq), x)

\* free(ptr) of a pointer the caller holds, when no other pointer it holds
\* is in the same cluster.
Free(ptr) ==
    /\ Running
    /\ nops < MaxOps
    /\ \A q \in live : q.cluster = ptr.cluster => q = ptr
    /\ SetMgr(free(Mgr, ptr))
    /\ live' = live \ {ptr}
    /\ handed' = Without(handed, ptr.cluster)
    /\ result' = Result("free", "Ok", 0, ptr, << >>, 0, FALSE, NoPop)
    /\ nops' = nops + 1
    /\ freed' = TRUE
    /\ UNCHANGED <<threads, calls, issued, corrupted>>

\* The byte of a sector a corruption changes (1-based).
CorruptByte == 2

\* The clusters a page pointer or the head metacluster refers to.
InUse ==
    {p[2].cluster : p \in issued}
        \cup ({head_metacluster.next} \ {NoCluster})

\* Silent corruption of one byte of a sector on the device.
Corrupt(c) ==
    /\ Running
    /\ c \in InUse
    /\ nops < MaxOps
    /\ ~corrupted
    /\ cache' = [cache EXCEPT ![c][CorruptByte] = (@ + 1) % 256]
    /\ result' = Result("corrupt", "Ok", 0, Pointer(c, NoOffset, 0), << >>,
                        0, FALSE, NoPop)
    /\ nops' = nops + 1
    /\ corrupted' = TRUE
    /\ tx' = << >>
    /\ UNCHANGED <<state_block, state, head_metacluster, last_cluster,
                   dedup_table, algorithm, pool, threads, calls, live, issued,
                   handed, freed>>
    /\ UNCHANGED framing

Next ==
    \/ \E id \in PageIds : Alloc(id)
    \/ \E p \in issued : Read(p[2])
    \/ \E ptr \in live : Free(ptr)
    \/ \E c \in Clusters : Corrupt(c)

Spec == Init /\ [][Next]_vars

\* ----------------------------------------------------- concurrent allocs
\* A thread calls alloc(buf).
Call(t, id) ==
    /\ Running
    /\ threads[t].pc = "idle"
    /\ calls[1] + calls[2] < MaxCalls
    /\ threads' = [threads EXCEPT ![t] = StartAlloc(id)]
    /\ calls' = [calls EXCEPT ![t] = @ + 1]
    /\ UNCHANGED <<cache, state_block, state, head_metacluster, last_cluster,
                   dedup_table, algorithm, pool, tx, live, issued, handed, result,
                   nops, freed, corrupted>>
    /\ UNCHANGED framing

\* A thread runs the next step of its alloc.
AllocStep(t) ==
    /\ Running
    /\ threads[t].pc \notin {"idle", "done"}
    /\ \E wrap \in Builds :
          LET r == alloc_step(Mgr, threads[t], wrap)
          IN  /\ SetMgr(r.m)
              /\ threads' = [threads EXCEPT ![t] = r.l]
              /\ handed' = IF r.l.pop.kind = "Ok" /\ threads[t].pop.kind # "Ok"
                           THEN Append(handed, r.l.pop.cluster) ELSE handed
    /\ UNCHANGED <<calls, live, issued, result, nops, freed, corrupted>>

\* The alloc of a thread returns to its caller.
AllocReturn(t) ==
    /\ Running
    /\ threads[t].pc = "done"
    /\ Returned(threads[t])
    /\ threads' = [threads EXCEPT ![t] = Idle]
    /\ nops' = nops + 1
    /\ UNCHANGED <<cache, state_block, state, head_metacluster, last_cluster,
                   dedup_table, algorithm, pool, tx, calls, handed, freed,
                   corrupted>>
    /\ UNCHANGED framing

NextConcurrent ==
    \/ \E t \in Threads, id \in PageIds : Call(t, id)
    \/ \E t \in Threads : AllocStep(t)
    \/ \E t \in Threads : AllocReturn(t)

SpecConcurrent == Init /\ [][NextConcurrent]_vars

\* ------------------------------------------------------- framing alone
\* The codec is outside the repository: compress frames whatever stream it
\* returns.  Here the stream is any sequence of the bytes below, short or
\* filling the sector up to its last byte but one.
MaxStream == 3

FrameBytes == {0, 1, DELIMITER}

Tails == UNION {[1 .. n -> FrameBytes] : n \in 0 .. MaxStream}

Filler(n) == [i \in 1 .. n |-> 7]

Streams == Tails \cup {Filler(SECTOR_SIZE - 1 - Len(t)) \o t : t \in Tails}

NotRecovered == [found |-> FALSE, stream |-> << >>]

InitFraming ==
    /\ Mounted(Lz4, 1, Metacluster(0, NoCluster, << >>), NoSectors, NoSectors)
    /\ tx = << >>
    /\ threads = [t \in Threads |-> Idle]
    /\ calls = [t \in Threads |-> 0]
    /\ result = Result("open", "Ok", 0, NoPointer, << >>, 0, FALSE, NoPop)
    /\ nops = 0
    /\ freed = FALSE
    /\ corrupted = FALSE
    /\ stream \in Streams
    /\ framed = << >>
    /\ recovered = NotRecovered

\* compress frames the stream the codec returned (lines 383-394).
FrameStream ==
    /\ framed = << >>
    /\ frame(stream).some
    /\ framed' = frame(stream).buf
    /\ UNCHANGED <<cache, state_block, state, head_metacluster, last_cluster,
                   dedup_table, algorithm, tx, threads, calls, live, issued,
                   handed, result, nops, freed, corrupted, pool, stream,
                   recovered>>

\* decompress looks for the delimiter of the sector and takes the bytes
\* before it (lines 410-417).
FindDelimiter ==
    /\ framed # << >>
    /\ ~recovered.found
    /\ recovered' = [found |-> LastNonZero(framed) >= 0,
                     stream |-> unframe(framed)]
    /\ UNCHANGED <<cache, state_block, state, head_metacluster, last_cluster,
                   dedup_table, algorithm, tx, threads, calls, live, issued,
                   handed, result, nops, freed, corrupted, pool, stream,
                   framed>>

NextFraming == FrameStream \/ FindDelimiter

SpecFraming == InitFraming /\ [][NextFraming]_vars

\* ------------------------------------------------------------ properties
Range(seq) == {seq[i] : i \in 1 .. Len(seq)}

NoDuplicates(seq) ==
    \A i, j \in 1 .. Len(seq) : i # j => seq[i] # seq[j]

\* The metaclusters linked behind the head, as the disk holds them: each
\* node followed by its free array.
RECURSIVE LinkedFree(_, _)
LinkedFree(next, depth) ==
    IF next \notin Clusters \/ depth = 0 THEN << >>
    ELSE <<next>> \o decode(cache[next]).free
            \o LinkedFree(decode(cache[next]).next, depth - 1)

\* Every cluster reachable as free: the head node, its free array, and the
\* linked metaclusters with theirs.
FreeSeq ==
    IF state.some
    THEN <<state.cluster>> \o head_metacluster.free
            \o LinkedFree(head_metacluster.next, NumClusters)
    ELSE << >>

LiveClusters == {p.cluster : p \in live}

AllReturned == \A t \in Threads : threads[t].pc = "idle"

\* The alloc of page id needs a fresh cluster: it misses the dedup table
\* and cannot append to the last cluster.
CanAppend(id) ==
    /\ algorithm = Lz4
    /\ last_cluster.some
    /\ Len(last_cluster.uncompressed) < CLUSTER_CAPACITY
    /\ compress(algorithm, last_cluster.uncompressed \o PageData(id)).some

NeedsCluster(id) == dedup_table[id] = NoPointer /\ ~CanAppend(id)

\* The step is an alloc(PageData(id)) from call to return.
IsAlloc(id) == nops' = nops + 1 /\ result'.op = "alloc" /\ result'.id = id

\* C1: with no free and no corruption, read(p) of every pointer p that
\* alloc(buf) has returned so far gives exactly buf, in both compression
\* modes, also for pointers into a cluster that later pages were appended to.
PointerStability ==
    (~freed /\ ~corrupted) =>
        \A p \in issued :
            LET r == read(algorithm, cache[p[2].cluster], p[2])
            IN  r.kind = "Ok" /\ r.data = PageData(p[1])

\* A read of page 0 of a compressed cluster after page 1 was appended to it.
PointerStabilityWitness ==
    /\ ~freed /\ ~corrupted
    /\ result.op = "read" /\ result.kind = "Ok"
    /\ result.ptr.offset = 0
    /\ \E q \in issued : q[2].cluster = result.ptr.cluster /\ q[2].offset = 1
    /\ \E p \in issued : p[2] = result.ptr /\ result.data = PageData(p[1])

\* C2: the clusters reachable as free are exactly the clusters of the device
\* that no live allocation holds, each of them once.
FreelistRoundTrip ==
    result.kind # "Panic" =>
        /\ Range(FreeSeq) = pool \ LiveClusters
        /\ NoDuplicates(FreeSeq)

\* C3: read returns bytes only when their checksum is the pointer's; when
\* the bytes at the pointer hash to another value read fails with
\* PageChecksumMismatch carrying the pointer and the computed checksum.
ChecksumEnforcement ==
    result.op = "read" =>
        LET at == PageBytes(algorithm, cache[result.ptr.cluster], result.ptr)
        IN  /\ result.kind = "Ok" =>
                /\ PageChecksum(result.data) = result.ptr.checksum
                /\ at.kind = "Ok" /\ result.data = at.data
            /\ (at.kind = "Ok" /\ PageChecksum(at.data) # result.ptr.checksum)
                => /\ result.kind = "PageChecksumMismatch"
                   /\ result.found = PageChecksum(at.data)
                   /\ result.data = << >>

\* A read of a corrupted page that fails with PageChecksumMismatch.
ChecksumEnforcementWitness ==
    /\ result.op = "read" /\ result.kind = "PageChecksumMismatch"
    /\ corrupted
    /\ result.found # result.ptr.checksum

DistinctClusters == NoDuplicates(handed)

\* Two allocs in flight at once, each holding a popped cluster.
DistinctClustersWitness ==
    \A t \in Threads :
        /\ threads[t].pc \notin {"idle", "done"}
        /\ threads[t].pop.kind = "Ok"

\* C6: once all concurrent allocs have returned, every pointer
\* (cluster, Some(i)) refers to a cluster whose stored stream holds at least
\* i + 1 pages, page i being the content its caller allocated.
PackerConcurrentSafety ==
    (AllReturned /\ algorithm = Lz4) =>
        \A p \in issued :
            p[2].offset # NoOffset =>
                LET d == decompress(algorithm, cache[p[2].cluster])
                IN  /\ d.kind = "Ok"
                    /\ Len(d.data) >= (p[2].offset + 1) * SECTOR_SIZE
                    /\ SubSeq(d.data, p[2].offset * SECTOR_SIZE + 1,
                              (p[2].offset + 1) * SECTOR_SIZE)
                          = PageData(p[1])

\* C7: an alloc that needs a cluster while freelist_head is None fails with
\* OutOfClusters and hands out nothing; a pop that consumes a head
\* metacluster with no free cluster and no next link leaves freelist_head
\* None.
FreelistExhaustionStep ==
    \A id \in PageIds :
        (IsAlloc(id) /\ NeedsCluster(id)) =>
            /\ ~state.some =>
                /\ result'.kind = "OutOfClusters"
                /\ result'.ptr = NoPointer
                /\ handed' = handed /\ live' = live /\ issued' = issued
                /\ ~state'.some
            /\ (/\ state.some
                /\ head_metacluster.free = << >>
                /\ head_metacluster.next = NoCluster) =>
                /\ result'.kind = "Ok"
                /\ result'.ptr.cluster = state.cluster
                /\ ~state'.some

FreelistExhaustion == [][FreelistExhaustionStep]_vars

\* An alloc failed with OutOfClusters after the last cluster was consumed.
FreelistExhaustionWitness ==
    /\ result.op = "alloc" /\ result.kind = "OutOfClusters"
    /\ ~state.some
    /\ Len(handed) >= 1

\* C8: a pop that switches to the next metacluster and computes a checksum
\* other than the stored next_checksum returns MetaclusterChecksumMismatch
\* and hands out no cluster.
MetaclusterCorruptionDetected ==
    (/\ result.op = "alloc"
     /\ result.pop.path \in {"switch", "switch_failed"}
     /\ result.pop.found # result.pop.stored) =>
        /\ result.kind = "MetaclusterChecksumMismatch"
        /\ result.pop.cluster = NoCluster

\* C9: no pointer an alloc returned and the caller still holds is in a
\* cluster of the freelist, and no cluster is in two free-array slots.
NoLiveClusterIsFree ==
    result.kind # "Panic" =>
        /\ \A p \in live : p.cluster \notin Range(FreeSeq)
        /\ (result.op = "alloc" /\ result.kind = "Ok")
              => result.ptr.cluster \notin Range(FreeSeq)
        /\ NoDuplicates(head_metacluster.free)

\* C10: after a state-block flush of a pop or a push, the counter of
\* freelist_head is the length of the head metacluster's free array.
CounterMatchesFree ==
    (/\ result.op \in {"alloc", "free"}
     /\ result.kind # "Panic"
     /\ StateBlockAddress \in Range(tx)
     /\ state.some) =>
        state.counter = Len(head_metacluster.free)

\* C11: after a state-block flush of a pop or a push that leaves a freelist
\* head, the checksum of freelist_head is the hash of the active prefix of
\* the head metacluster's encoding.
HeadChecksumMatches ==
    (/\ result.op \in {"alloc", "free"}
     /\ result.kind # "Panic"
     /\ StateBlockAddress \in Range(tx)
     /\ state.some
     /\ ~checksum_panics(head_metacluster)) =>
        state.checksum = checksum(head_metacluster)

\* The clusters of the metacluster sectors on disk: the freelist head's
\* cluster and the clusters linked from it by the next pointers on disk.
RECURSIVE MetaclusterChain(_, _)
MetaclusterChain(cluster, depth) ==
    IF cluster \notin Clusters \/ depth = 0 THEN {}
    ELSE {cluster} \cup MetaclusterChain(decode(cache[cluster]).next,
                                         depth - 1)

\* C12: for every metacluster sector on disk with a next pointer n, the
\* next_checksum of the sector is the checksum of the metacluster stored on
\* disk at cluster n, as the pop that follows the link computes it.
LinksVerify ==
    (result.kind # "Panic" /\ ~corrupted /\ state.some) =>
        \A c \in MetaclusterChain(state.cluster, NumClusters) :
            LET sector == decode(cache[c])
            IN  (sector.next \in Clusters
                     /\ ~checksum_panics(decode(cache[sector.next]))) =>
                    sector.next_checksum
                        = checksum(decode(cache[sector.next]))

\* The state-block writes among the sector writes of the last operation.
StateBlockWrites == {i \in 1 .. Len(tx) : tx[i] = StateBlockAddress}

\* The clusters the committed state describes as free: the cluster of the
\* freelist head in the state block, the first `counter` pointers of the
\* metacluster stored there, and the metaclusters linked behind it.
DurableFree ==
    IF state_block.some
    THEN LET sector == decode(cache[state_block.cluster])
         IN  {state_block.cluster}
                 \cup {sector.free[i] :
                          i \in 1 .. Min(state_block.counter,
                                         Len(sector.free))}
                 \cup Range(LinkedFree(sector.next, NumClusters))
    ELSE {}

\* C13: an alloc whose freelist pop succeeds has issued exactly one
\* state-block write, and once its writes are committed the popped cluster
\* is not free in the committed state.
PopCommitsOnce ==
    (/\ result.op = "alloc"
     /\ result.kind = "Ok"
     /\ result.pop.kind = "Ok"
     /\ ~corrupted) =>
        /\ Cardinality(StateBlockWrites) = 1
        /\ result.pop.cluster \notin DurableFree

\* The step is a free(ptr) that finds the head metacluster full.
IsOverflowPush ==
    /\ nops' = nops + 1
    /\ result'.op = "free"
    /\ state.some
    /\ head_is_full(head_metacluster.free)

\* C14: a push that finds the head metacluster full writes the new head
\* metacluster to the pushed cluster c and then the state block.  The write
\* of c leaves the sector of the old head as it was; the sector written to
\* c holds an empty metacluster linked to the old head with the checksum
\* recorded for it, and the state block written after it records c with the
\* hash of that sector's active prefix.
OverflowPushOrderStep ==
    IsOverflowPush =>
        LET c == result'.ptr.cluster
        IN  /\ tx' = <<c, StateBlockAddress>>
            /\ state_block = state
            /\ c # state_block.cluster
            /\ \A d \in Clusters \ {c} : cache'[d] = cache[d]
            /\ cache'[c] = encode([next_checksum |-> state.checksum,
                                   next |-> state.cluster,
                                   free |-> << >>])
            /\ state_block' = FreelistHead(
                   c, Hash(SubSeq(cache'[c], 1, 2 * POINTER_SIZE)), 0)

OverflowPushOrder == [][OverflowPushOrderStep]_vars

\* A push has made its cluster the new head, linked to the full old head.
OverflowPushOrderWitness ==
    /\ result.op = "free"
    /\ tx = <<result.ptr.cluster, StateBlockAddress>>
    /\ state_block.cluster = result.ptr.cluster
    /\ head_metacluster.next \in Clusters
    /\ head_metacluster.free = << >>
    /\ cache[result.ptr.cluster] = encode(head_metacluster)

\* The alloc with locals l has built its pointer and issued the cache write
\* of the pointer's cluster (lines 221, 258, 287, 305).
WriteIssued(l) == l.ptr # NoPointer /\ l.pc \in {"insert", "done"}

\* C15: the dedup table holds the pointer of a running alloc that stores a
\* new page only when the alloc has issued the cache write of the
\* pointer's cluster.
InsertAfterWrite ==
    \A t \in Threads :
        (/\ threads[t].pc # "idle"
         /\ ~threads[t].hit
         /\ threads[t].ptr # NoPointer
         /\ dedup_table[threads[t].id] = threads[t].ptr) =>
            WriteIssued(threads[t])

\* C16: an alloc that pops from an exhausted head metacluster H whose next
\* link n holds a metacluster M with the checksum H.next_checksum returns
\* the cluster of H, makes M the head metacluster, sets freelist_head to
\* {n, H.next_checksum, |M.free|} and flushes the state block.
TraversalStep ==
    \A id \in PageIds :
        (/\ IsAlloc(id) /\ NeedsCluster(id)
         /\ ~corrupted
         /\ state.some
         /\ head_metacluster.free = << >>
         /\ head_metacluster.next \in Clusters
         /\ ~checksum_panics(decode(cache[head_metacluster.next]))
         /\ checksum(decode(cache[head_metacluster.next]))
                = head_metacluster.next_checksum) =>
            /\ result'.kind = "Ok"
            /\ result'.ptr.cluster = state.cluster
            /\ head_metacluster' = decode(cache[head_metacluster.next])
            /\ state' = FreelistHead(head_metacluster.next,
                                     head_metacluster.next_checksum,
                                     Len(head_metacluster'.free))
            /\ StateBlockAddress \in Range(tx')

Traversal == [][TraversalStep]_vars

\* C17: with compression enabled, an alloc of new content that finds in
\* last_cluster a state s of k pages below the capacity, the k + 1 pages
\* compressing into one sector, returns (s.cluster, Some(k), checksum of the
\* page), pops nothing, writes the recompressed stream to s.cluster and
\* leaves last_cluster holding s.cluster with the k + 1 pages.
PackingAppendStep ==
    \A id \in PageIds :
        (IsAlloc(id) /\ dedup_table[id] = NoPointer /\ CanAppend(id)) =>
            LET s == last_cluster
                k == Len(s.uncompressed) \div SECTOR_SIZE
                pages == s.uncompressed \o PageData(id)
            IN  /\ result'.kind = "Ok"
                /\ result'.ptr = Pointer(s.cluster, k,
                                         PageChecksum(PageData(id)))
                /\ result'.pop = NoPop
                /\ handed' = handed
                /\ state' = state
                /\ head_metacluster' = head_metacluster
                /\ tx' = <<s.cluster>>
                /\ cache' = [cache EXCEPT ![s.cluster] =
                                compress(algorithm, pages).buf]
                /\ last_cluster' = ClusterState(s.cluster, pages)

PackingAppend == [][PackingAppendStep]_vars

\* An alloc has appended its page to the last cluster as page 1.
PackingAppendWitness ==
    /\ algorithm = Lz4
    /\ result.op = "alloc" /\ result.kind = "Ok" /\ ~result.hit
    /\ result.pop = NoPop
    /\ result.ptr.offset = 1
    /\ tx = <<result.ptr.cluster>>
    /\ last_cluster = ClusterState(result.ptr.cluster,
                                   last_cluster.uncompressed)
    /\ Len(last_cluster.uncompressed) = 2 * SECTOR_SIZE
    /\ decompress(algorithm, cache[result.ptr.cluster]).data
           = last_cluster.uncompressed

\* The last operation was an alloc that stored its page uncompressed in a
\* fresh cluster while compression is enabled.
SpilledRaw ==
    /\ algorithm = Lz4
    /\ result.op = "alloc" /\ result.kind = "Ok" /\ ~result.hit
    /\ result.ptr.offset = NoOffset

\* C18: with compression enabled, an alloc that takes a fresh cluster c for
\* a page that does not compress into one sector writes the page verbatim
\* to c, returns (c, None, checksum of the page) and leaves last_cluster
\* None; the alloc of new content that follows it goes to the freelist.
SpillIncompressibleStep ==
    \A id \in PageIds :
        /\ (/\ IsAlloc(id) /\ NeedsCluster(id)
            /\ algorithm = Lz4
            /\ ~compress(algorithm, PageData(id)).some
            /\ result'.kind = "Ok") =>
               LET c == result'.pop.cluster
               IN  /\ result'.pop.kind = "Ok"
                   /\ c \in Range(tx')
                   /\ cache'[c] = PageData(id)
                   /\ result'.ptr = Pointer(c, NoOffset,
                                            PageChecksum(PageData(id)))
                   /\ ~last_cluster'.some
        /\ (SpilledRaw /\ IsAlloc(id) /\ dedup_table[id] = NoPointer) =>
               /\ ~last_cluster.some
               /\ result'.pop # NoPop
               /\ result'.kind = "Ok" => result'.ptr.cluster = result'.pop.cluster

SpillIncompressible == [][SpillIncompressibleStep]_vars

\* An incompressible page was stored verbatim in a popped cluster.
SpillIncompressibleWitness ==
    /\ SpilledRaw
    /\ result.pop.kind = "Ok"
    /\ result.ptr.cluster = result.pop.cluster
    /\ cache[result.ptr.cluster] = PageData(result.id)
    /\ ~compress(algorithm, PageData(result.id)).some
    /\ ~last_cluster.some

\* C19: with the Identity algorithm, an alloc that misses the dedup table
\* goes to the freelist and returns (popped cluster, None, checksum of the
\* page); no step changes last_cluster; no alloc panics in compress (a
\* panic of an alloc is a panic of its pop); every read is of a pointer
\* without offset, which does not reach decompress, and does not panic.
IdentityContractStep ==
    algorithm = Identity =>
        /\ last_cluster = NoClusterState
        /\ last_cluster' = NoClusterState
        /\ \A id \in PageIds :
              (IsAlloc(id) /\ dedup_table[id] = NoPointer) =>
                  /\ result'.pop # NoPop
                  /\ result'.kind = "Panic" => result'.pop.kind = "Panic"
                  /\ result'.kind = "Ok" =>
                         /\ result'.pop.kind = "Ok"
                         /\ result'.ptr = Pointer(result'.pop.cluster,
                                                  NoOffset,
                                                  PageChecksum(PageData(id)))
        /\ result'.op = "read" =>
              /\ result'.ptr.offset = NoOffset
              /\ result'.kind # "Panic"

IdentityContract == [][IdentityContractStep]_vars

\* With the Identity algorithm, a read of a page stored by an alloc of the
\* run in the cluster it popped.
IdentityContractWitness ==
    /\ algorithm = Identity
    /\ result.op = "read" /\ result.kind = "Ok"
    /\ result.ptr.cluster \in Range(handed)
    /\ nops >= 1
    /\ \E p \in issued : /\ p[2] = result.ptr
                          /\ p[1] # IncompressiblePage
                          /\ result.data = PageData(p[1])
    /\ last_cluster = NoClusterState

\* C20: a read of a pointer with offset Some(i) whose cluster decompresses
\* to a length that is not a multiple of the sector size, or that ends
\* before page i does, returns InvalidCompression.
ReadBoundsChecked ==
    (result.op = "read" /\ result.ptr.offset # NoOffset) =>
        LET d == decompress(algorithm, cache[result.ptr.cluster])
        IN  (/\ d.kind = "Ok"
             /\ \/ Len(d.data) % SECTOR_SIZE # 0
                \/ result.ptr.offset * SECTOR_SIZE + SECTOR_SIZE
                       > Len(d.data)) =>
                result.kind = "InvalidCompression"

\* C21: for every stream shorter than a sector, whatever its bytes, the
\* sector built of it is the stream, the delimiter and zero padding; the
\* last non-zero byte of the sector is at the stream's length and the bytes
\* before it are the stream; no other stream gives the same sector.
FramingRoundTrip ==
    /\ framed # << >> =>
          /\ Len(stream) < SECTOR_SIZE
          /\ framed = stream \o <<DELIMITER>>
                        \o Zeros(SECTOR_SIZE - Len(stream) - 1)
          /\ LastNonZero(framed) = Len(stream)
          /\ unframe(framed) = stream
          /\ \A other \in Streams \ {stream} : frame(other).buf # framed
    /\ recovered.found => recovered.stream = stream

\* A stream ending in 0x00 0xFF was framed and recovered from its sector.
FramingRoundTripWitness ==
    /\ recovered.found
    /\ recovered.stream = stream
    /\ Len(stream) >= 2
    /\ stream[Len(stream)] = DELIMITER
    /\ stream[Len(stream) - 1] = 0
    /\ framed[Len(stream) + 1] = DELIMITER

\* C22: the uncompressed buffer of last_cluster, when there is one, is a
\* positive number of whole sectors and at most CLUSTER_CAPACITY bytes; an
\* alloc of new content that finds a buffer of CLUSTER_CAPACITY bytes or
\* more does not extend it: it goes to the freelist and last_cluster is
\* left None or holding the new page alone.
PackerCapacityStep ==
    /\ last_cluster'.some =>
          /\ Len(last_cluster'.uncompressed) > 0
          /\ Len(last_cluster'.uncompressed) % SECTOR_SIZE = 0
          /\ Len(last_cluster'.uncompressed) <= CLUSTER_CAPACITY
    /\ \A id \in PageIds :
          (/\ IsAlloc(id) /\ dedup_table[id] = NoPointer
           /\ algorithm = Lz4
           /\ last_cluster.some
           /\ Len(last_cluster.uncompressed) >= CLUSTER_CAPACITY) =>
              /\ result'.pop # NoPop
              /\ last_cluster'.some =>
                    last_cluster' = ClusterState(result'.pop.cluster,
                                                 PageData(id))
              /\ result'.kind = "Ok" =>
                    /\ result'.ptr.cluster = result'.pop.cluster
                    /\ result'.ptr.offset \in {NoOffset, 0}

PackerCapacity == [][PackerCapacityStep]_vars

\* An alloc found the last cluster full, with room left in its compressed
\* sector for the new page, and opened a cluster for the page alone.
PackerCapacityWitness ==
    /\ algorithm = Lz4
    /\ result.op = "alloc" /\ result.kind = "Ok" /\ ~result.hit
    /\ result.pop.kind = "Ok"
    /\ result.ptr.offset = 0
    /\ last_cluster = ClusterState(result.pop.cluster, PageData(result.id))
    /\ \E c \in Clusters :
          LET d == decompress(algorithm, cache[c])
          IN  /\ c # result.ptr.cluster
              /\ d.kind = "Ok"
              /\ Len(d.data) = CLUSTER_CAPACITY
              /\ frame(CodecCompress(d.data \o PageData(result.id))).some

\* C23: every metacluster behind the head, as its cluster holds it, has
\* exactly K = (S - 16) / 8 free pointers, and the head's free array has at
\* most K.
InteriorNodesFull ==
    (result.kind # "Panic" /\ ~corrupted /\ state.some) =>
        /\ Len(head_metacluster.free) <= MetaclusterSlots
        /\ \A n \in MetaclusterChain(head_metacluster.next, NumClusters) :
              Len(decode(cache[n]).free) = MetaclusterSlots

\* C24: an alloc whose pop has to switch to the next metacluster and does
\* not get it (the read or the verification fails, or the checksum computed
\* is not the stored one) leaves freelist_head and the head metacluster as
\* they were, next link included, and returns no cluster.
FailedSwitchKeepsStateStep ==
    \A id \in PageIds :
        (/\ IsAlloc(id)
         /\ result'.pop.path \in {"switch", "switch_failed"}
         /\ \/ result'.pop.path = "switch_failed"
            \/ result'.pop.found # result'.pop.stored) =>
            /\ state' = state
            /\ head_metacluster' = head_metacluster
            /\ result'.kind \notin {"Ok", "Panic"}
            /\ result'.pop.cluster = NoCluster
            /\ handed' = handed
            /\ live' = live

FailedSwitchKeepsState == [][FailedSwitchKeepsStateStep]_vars

\* The 8 bytes of buf at byte offset off are the little-endian pointer v.
HoldsAt(buf, off, v) ==
    \A k \in 1 .. POINTER_SIZE : buf[off + k] = LittleEndianByte(v, k)

\* C25: the encoding of the head metacluster holds next_checksum in bytes
\* 0..8, the next pointer in bytes 8..16, free pointer i in bytes
\* 16 + 8i .. 24 + 8i and zeros behind the last one, so that the hashed
\* prefix of 16 + 8 * |free| bytes holds all of it and decoding gives the
\* metacluster back.
EncodeLayout ==
    (result.kind # "Panic" /\ ~encode_panics(head_metacluster)) =>
        LET m == head_metacluster
            buf == encode(m)
        IN  /\ HoldsAt(buf, 0, m.next_checksum)
            /\ HoldsAt(buf, POINTER_SIZE, m.next)
            /\ \A n \in 1 .. Len(m.free) :
                  HoldsAt(buf, 2 * POINTER_SIZE + POINTER_SIZE * (n - 1),
                          m.free[n])
            /\ ActivePrefixLen(m) = 2 * POINTER_SIZE + POINTER_SIZE * Len(m.free)
            /\ \A j \in ActivePrefixLen(m) + 1 .. SECTOR_SIZE : buf[j] = 0
            /\ decode(buf) = m

====
